---- MODULE Spec2Model ----
(***************************************************************************)
(* Model of src/app.py: the PDF unlock tool's validator, unlock worker,    *)
(* batch coordinator over a ThreadPoolExecutor, archive builder and the    *)
(* temp-file registry with its background cleanup thread.                  *)
(*                                                                         *)
(* Time is a discrete clock `now`.  The source's numeric settings          *)
(* (MAX_CONCURRENT_TASKS = 10, TEMP_FILES_TTL = 3600, the 300 s sleep and  *)
(* MAX_FILE_SIZE_MB = 100) are scaled down; the scaled values are bounds   *)
(* of the model and every property is stated in terms of their names.      *)
(***************************************************************************)
EXTENDS Integers, Sequences, FiniteSets, TLC

(* ---------------------------- bounds ----------------------------------- *)

\* app.py:43 MAX_CONCURRENT_TASKS = 10, scaled
MAX_CONCURRENT_TASKS == 2
\* app.py:44 TEMP_FILES_TTL = 3600, scaled (clock ticks)
TEMP_FILES_TTL == 2
\* app.py:70 time.sleep(300), scaled (clock ticks)
SWEEP_INTERVAL == 2
\* app.py:42 MAX_FILE_SIZE_MB * 1024 * 1024, scaled (size units)
MAX_FILE_SIZE == 2
\* largest batch handed to process_multiple_files
MaxBatch == 3
\* size of the batch that runs beside the cleanup thread
RegBatch == 1
\* number of create_zip_file calls in a run
MaxZips == 2
\* size of the finished batch whose outputs are archived
ArchBatch == 2

\* the clock stops one tick after the latest deadline of an entry made at 0
MaxTime == TEMP_FILES_TTL + SWEEP_INTERVAL + 1

(* --------------------------- candidates -------------------------------- *)

None == "None"

Extensions == {".pdf", ".PDF", ".txt", ""}

\* os.path.basename of the upload's name, without the extension
BaseNames == {"a", "b"}

SUPPORTED_EXTENSIONS == {".pdf"}

\* str.lower() on the extensions of the model
Lower(ext) == IF ext = ".PDF" THEN ".pdf" ELSE ext

\* An upload: hasName = the object has a `name` attribute, readable =
\* os.path.getsize(name) succeeds, base and ext = the two parts of
\* os.path.basename(name), size = the size os.path.getsize returns.
Candidates ==
    [hasName : BOOLEAN, readable : BOOLEAN, base : BaseNames, ext : Extensions,
     size : 0 .. (MAX_FILE_SIZE + 1)]

Cand(h, r, e, s) ==
    [hasName |-> h, readable |-> r, base |-> "a", ext |-> e, size |-> s]

\* no validate_file call has returned yet
NoVerdict == <<FALSE, "pending">>

\* validate_file with the size checked before the extension
validate_file_size_first(file_obj) ==
    IF ~file_obj.hasName THEN <<FALSE, "invalid_file_object">>
    ELSE IF ~file_obj.readable THEN <<FALSE, "validation_failed">>
    ELSE IF file_obj.size = 0 THEN <<FALSE, "file_is_empty">>
    ELSE IF Lower(file_obj.ext) \notin SUPPORTED_EXTENSIONS
        THEN <<FALSE, "unsupported_file_type">>
    ELSE IF file_obj.size > MAX_FILE_SIZE THEN <<FALSE, "file_size_exceeds_limit">>
    ELSE <<TRUE, "ok">>

\* validate_file: <<is_valid, msg>>.  Line 76 looks for the name, line 80
\* reads the size (an OSError goes to line 95), lines 83-92 check the
\* extension, then the size.
validate_file(file_obj) ==
    IF ~file_obj.hasName THEN <<FALSE, "invalid_file_object">>
    ELSE IF ~file_obj.readable THEN <<FALSE, "validation_failed">>
    ELSE IF Lower(file_obj.ext) \notin SUPPORTED_EXTENSIONS
        THEN <<FALSE, "unsupported_file_type">>
    ELSE IF file_obj.size = 0 THEN <<FALSE, "file_is_empty">>
    ELSE IF file_obj.size > MAX_FILE_SIZE THEN <<FALSE, "file_size_exceeds_limit">>
    ELSE <<TRUE, "ok">>

\* One upload per outcome of validate_file, for the batches.
BatchCandidates ==
    { Cand(FALSE, FALSE, "", 0),
      Cand(TRUE, FALSE, ".pdf", 0),
      Cand(TRUE, TRUE, ".txt", 1),
      Cand(TRUE, TRUE, ".pdf", 0),
      Cand(TRUE, TRUE, ".pdf", MAX_FILE_SIZE + 1),
      Cand(TRUE, TRUE, ".pdf", 1) }

Batches == UNION { [1 .. n -> BatchCandidates] : n \in 0 .. MaxBatch }

Tasks == 1 .. MaxBatch

\* output_path of task i (inside its own mkdtemp directory i)
OutPath(i) == <<"out", i>>

\* zip_path built from the timestamp t
ZipPath(t) == <<"zip", t>>

Paths == { OutPath(i) : i \in Tasks } \cup { ZipPath(t) : t \in 0 .. MaxTime }

(* ----------------------------- state ----------------------------------- *)

VARIABLES
    now,              \* time.time()
    temp_files,       \* the registry: path -> created_time
    temp_files_lock,  \* the thread holding temp_files_lock, or None
    disk,             \* files that exist
    dirs,             \* staging directories that exist (by task)
    archive,          \* content of the archive file last opened at each path
    pc,               \* position of process_multiple_files
    files,            \* its argument
    idx,              \* position of the submission loop
    w_pc,             \* position of each remove_pdf_restrictions task
    result,           \* outcome of each future
    collected,        \* futures as_completed has yielded
    success_files, success_count, fail_count,
    z_pc, zip_path,   \* create_zip_file
    z_files,          \* its argument
    z_k,              \* position of its loop over the files
    z_found,          \* positions where os.path.exists was true
    zip_calls,        \* create_zip_file calls so far
    z_result,         \* whether the last create_zip_file call returned zip_path
    status,           \* what process_and_update shows
    o_queued, o_running,  \* the executor of another call in flight
    r_pc, current_time, expired_files, todo, wake_at,  \* cleanup_temp_files
    inserted,         \* history: path -> time of its last registration
    candidate, verdict  \* a validate_file call on its own

vars == <<now, temp_files, temp_files_lock, disk, dirs, archive, pc, files, idx,
          w_pc, result, collected, success_files, success_count, fail_count,
          z_pc, zip_path, z_files, z_k, z_found, zip_calls, z_result, status,
          o_queued, o_running, r_pc, current_time, expired_files, todo, wake_at,
          inserted, candidate, verdict>>

regVars == <<temp_files, temp_files_lock, inserted>>
fsVars == <<disk, dirs, archive>>
batchVars == <<pc, files, idx, collected, success_files, success_count, fail_count>>
workerVars == <<w_pc, result>>
zipVars == <<z_pc, zip_path, z_files, z_k, z_found, zip_calls, z_result>>
uiVars == <<status>>
otherVars == <<o_queued, o_running>>
reaperVars == <<r_pc, current_time, expired_files, todo, wake_at>>
valVars == <<candidate, verdict>>

\* threads that use temp_files_lock
NoThread == <<"none", 0>>
Worker(i) == <<"worker", i>>
ZipThread == <<"zip", 0>>
Reaper == <<"reaper", 0>>

EmptyMap == [p \in {} |-> 0]

\* process_and_update has shown nothing yet
NoStatus == <<"pending", 0, 0>>

Put(m, p, t) == [q \in DOMAIN m \cup {p} |-> IF q = p THEN t ELSE m[q]]

Pop(m, p) == [q \in DOMAIN m \ {p} |-> m[q]]

\* the state once the module is loaded: nothing registered, the cleanup
\* thread about to make its first sweep (lines 48-49, 229-231)
InitState ==
    /\ now = 0
    /\ temp_files = EmptyMap
    /\ temp_files_lock = NoThread
    /\ disk = {}
    /\ dirs = {}
    /\ archive = EmptyMap
    /\ idx = 1
    /\ w_pc = [i \in Tasks |-> "none"]
    /\ result = [i \in Tasks |-> "pending"]
    /\ collected = {}
    /\ success_files = <<>>
    /\ success_count = 0
    /\ fail_count = 0
    /\ z_pc = "idle"
    /\ zip_path = None
    /\ z_files = <<>>
    /\ z_k = 1
    /\ z_found = {}
    /\ zip_calls = 0
    /\ z_result = "none"
    /\ status = NoStatus
    /\ o_queued = 0
    /\ o_running = 0
    /\ r_pc = "sleep"
    /\ current_time = 0
    /\ expired_files = {}
    /\ todo = {}
    /\ wake_at = 0
    /\ inserted = EmptyMap
    /\ verdict = NoVerdict

NoCandidate == Cand(FALSE, FALSE, "", 0)

Init ==
    /\ InitState
    /\ pc = "idle"
    /\ files = <<>>
    /\ candidate = NoCandidate

\* a batch of uploads that all pass validate_file
ValidBatch == [i \in 1 .. RegBatch |-> Cand(TRUE, TRUE, ".pdf", 1)]

\* process_multiple_files has just been called on ValidBatch
InitRegistry ==
    /\ InitState
    /\ pc = "submit"
    /\ files = ValidBatch
    /\ candidate = NoCandidate

\* batches of ArchBatch uploads that all pass validate_file: all of one
\* base name, or of alternating base names
ArchiveBatches ==
    { [i \in 1 .. ArchBatch |-> Cand(TRUE, TRUE, ".pdf", 1)],
      [i \in 1 .. ArchBatch |->
          [Cand(TRUE, TRUE, ".pdf", 1) EXCEPT !.base = IF i % 2 = 1 THEN "a" ELSE "b"]] }

\* process_multiple_files has just returned the outputs of a batch of
\* ArchiveBatches, every task of which succeeded; the cleanup thread has
\* not made its first sweep yet
InitArchive ==
    /\ now = 0
    /\ temp_files = [p \in { OutPath(i) : i \in 1 .. ArchBatch } |-> 0]
    /\ inserted = temp_files
    /\ temp_files_lock = NoThread
    /\ disk = { OutPath(i) : i \in 1 .. ArchBatch }
    /\ dirs = 1 .. ArchBatch
    /\ archive = EmptyMap
    /\ pc = "returned"
    /\ files \in ArchiveBatches
    /\ idx = ArchBatch + 1
    /\ w_pc = [i \in Tasks |-> IF i <= ArchBatch THEN "done" ELSE "none"]
    /\ result = [i \in Tasks |-> IF i <= ArchBatch THEN "path" ELSE "pending"]
    /\ collected = 1 .. ArchBatch
    /\ success_files = [i \in 1 .. ArchBatch |-> OutPath(i)]
    /\ success_count = ArchBatch
    /\ fail_count = 0
    /\ z_pc = "idle"
    /\ zip_path = None
    /\ z_files = <<>>
    /\ z_k = 1
    /\ z_found = {}
    /\ zip_calls = 0
    /\ z_result = "none"
    /\ status = NoStatus
    /\ o_queued = 0
    /\ o_running = 0
    /\ r_pc = "sleep"
    /\ current_time = 0
    /\ expired_files = {}
    /\ todo = {}
    /\ wake_at = 0
    /\ verdict = NoVerdict
    /\ candidate = NoCandidate

\* a validate_file call on any upload
InitValidate ==
    /\ InitState
    /\ pc = "idle"
    /\ files = <<>>
    /\ candidate \in Candidates

(* ---------------------- validate_file on its own ----------------------- *)

ValidateCall ==
    /\ verdict = NoVerdict
    /\ verdict' = validate_file(candidate)
    /\ UNCHANGED <<now, regVars, fsVars, batchVars, workerVars, zipVars,
                   reaperVars, uiVars, otherVars, candidate>>

(* ------------------- remove_pdf_restrictions (a task) ------------------ *)

\* tasks a pool thread is executing
Running == { i \in Tasks : w_pc[i] \in {"write", "lock", "insert", "except"} }

Queued == { i \in Tasks : w_pc[i] = "queued" }

\* the pool's work queue is FIFO and submission follows the index
QueueHead == CHOOSE i \in Queued : \A j \in Queued : i <= j

\* a pool that starts a thread for every work item
SlotFree_unbounded == TRUE

\* a pool thread is free to take the next work item
SlotFree == Cardinality(Running) < MAX_CONCURRENT_TASKS

\* A pool thread takes the head of the queue and runs lines 101-109:
\* tempfile.mkdtemp() creates the staging directory or raises.
WorkerStart ==
    /\ Queued # {}
    /\ SlotFree
    /\ LET i == QueueHead IN
       \E ok \in BOOLEAN :
          /\ w_pc' = [w_pc EXCEPT ![i] = IF ok THEN "write" ELSE "except"]
          /\ dirs' = IF ok THEN dirs \cup {i} ELSE dirs
    /\ UNCHANGED <<now, regVars, disk, archive, batchVars, result, zipVars, reaperVars, uiVars, otherVars, valVars>>

\* lines 112-123: read the PDF, copy the pages, write the output file.
\* A failure may leave a partly written output file in the staging directory.
WorkerWrite(i) ==
    /\ w_pc[i] = "write"
    /\ \E ok \in BOOLEAN, written \in BOOLEAN :
          /\ ok => written
          /\ w_pc' = [w_pc EXCEPT ![i] = IF ok THEN "lock" ELSE "except"]
          /\ disk' = IF written THEN disk \cup {OutPath(i)} ELSE disk
    /\ UNCHANGED <<now, regVars, dirs, archive, batchVars, result, zipVars, reaperVars, uiVars, otherVars, valVars>>

\* a worker that takes the registry without waiting for the lock
WorkerAcquire_nowait(i) ==
    /\ w_pc[i] = "lock"
    /\ temp_files_lock' = Worker(i)
    /\ w_pc' = [w_pc EXCEPT ![i] = "insert"]
    /\ UNCHANGED <<now, temp_files, inserted, fsVars, batchVars, result, zipVars,
                   reaperVars, uiVars, otherVars, valVars>>

\* line 126: with temp_files_lock
WorkerAcquire(i) ==
    /\ w_pc[i] = "lock"
    /\ temp_files_lock = NoThread
    /\ temp_files_lock' = Worker(i)
    /\ w_pc' = [w_pc EXCEPT ![i] = "insert"]
    /\ UNCHANGED <<now, temp_files, inserted, fsVars, batchVars, result, zipVars,
                   reaperVars, uiVars, otherVars, valVars>>

\* a worker that returns its path without leaving the with block
WorkerInsert_keeps_lock(i) ==
    /\ w_pc[i] = "insert"
    /\ temp_files' = Put(temp_files, OutPath(i), now)
    /\ inserted' = Put(inserted, OutPath(i), now)
    /\ w_pc' = [w_pc EXCEPT ![i] = "done"]
    /\ result' = [result EXCEPT ![i] = "path"]
    /\ UNCHANGED <<now, temp_files_lock, fsVars, batchVars, zipVars, reaperVars,
                   uiVars, otherVars, valVars>>

\* lines 127-129: temp_files[output_path] = time.time(), the with block
\* ends and the path is returned
WorkerInsert(i) ==
    /\ w_pc[i] = "insert"
    /\ temp_files' = Put(temp_files, OutPath(i), now)
    /\ inserted' = Put(inserted, OutPath(i), now)
    /\ temp_files_lock' = NoThread
    /\ w_pc' = [w_pc EXCEPT ![i] = "done"]
    /\ result' = [result EXCEPT ![i] = "path"]
    /\ UNCHANGED <<now, fsVars, batchVars, zipVars, reaperVars, uiVars, otherVars, valVars>>

\* lines 130-135: the except block.  shutil.rmtree(temp_dir) removes the
\* staging directory, or raises and the exception leaves the function.
WorkerExcept(i) ==
    /\ w_pc[i] = "except"
    /\ w_pc' = [w_pc EXCEPT ![i] = "done"]
    /\ IF i \in dirs
       THEN \E removed \in BOOLEAN :
               IF removed
               THEN /\ dirs' = dirs \ {i}
                    /\ disk' = disk \ {OutPath(i)}
                    /\ result' = [result EXCEPT ![i] = "none"]
               ELSE /\ UNCHANGED <<dirs, disk>>
                    /\ result' = [result EXCEPT ![i] = "raised"]
       ELSE /\ UNCHANGED <<dirs, disk>>
            /\ result' = [result EXCEPT ![i] = "none"]
    /\ UNCHANGED <<now, regVars, archive, batchVars, zipVars, reaperVars, uiVars, otherVars, valVars>>

(* ----------------------- process_multiple_files ------------------------ *)

\* futures in future_to_file
Scheduled == { i \in Tasks : w_pc[i] # "none" }

Finished == { i \in Tasks : w_pc[i] = "done" }

\* lines 140-150
ProcessStart ==
    /\ pc = "idle"
    /\ \E fs \in Batches :
          /\ files' = fs
          /\ pc' = IF fs = <<>> THEN "returned" ELSE "submit"
    /\ UNCHANGED <<now, regVars, fsVars, idx, collected, success_files,
                   success_count, fail_count, workerVars, zipVars, reaperVars, uiVars, otherVars, valVars>>

\* a submission loop that skips a rejected upload without counting it
SubmitStep_uncounted ==
    /\ pc = "submit"
    /\ idx <= Len(files)
    /\ LET v == validate_file(files[idx]) IN
       IF ~v[1]
       THEN IF files[idx].hasName
            THEN /\ idx' = idx + 1
                 /\ UNCHANGED <<pc, fail_count, w_pc>>
            ELSE /\ pc' = "unwind"
                 /\ UNCHANGED <<fail_count, idx, w_pc>>
       ELSE /\ w_pc' = [w_pc EXCEPT ![idx] = "queued"]
            /\ idx' = idx + 1
            /\ UNCHANGED <<pc, fail_count>>
    /\ UNCHANGED <<now, regVars, fsVars, files, collected, success_files,
                   success_count, result, zipVars, reaperVars, uiVars, otherVars, valVars>>

\* lines 153-162, one iteration.  Line 157 reads file.name to log the
\* rejection: on an object without `name` that raises AttributeError, which
\* leaves the loop and enters the executor's __exit__.
SubmitStep ==
    /\ pc = "submit"
    /\ idx <= Len(files)
    /\ LET v == validate_file(files[idx]) IN
       IF ~v[1]
       THEN IF files[idx].hasName
            THEN /\ fail_count' = fail_count + 1
                 /\ idx' = idx + 1
                 /\ UNCHANGED <<pc, w_pc>>
            ELSE /\ pc' = "unwind"
                 /\ UNCHANGED <<fail_count, idx, w_pc>>
       ELSE /\ w_pc' = [w_pc EXCEPT ![idx] = "queued"]
            /\ idx' = idx + 1
            /\ UNCHANGED <<pc, fail_count>>
    /\ UNCHANGED <<now, regVars, fsVars, files, collected, success_files,
                   success_count, result, zipVars, reaperVars, uiVars, otherVars, valVars>>

\* lines 165-166
SubmitDone ==
    /\ pc = "submit"
    /\ idx > Len(files)
    /\ pc' = "collect"
    /\ UNCHANGED <<now, regVars, fsVars, files, idx, collected, success_files,
                   success_count, fail_count, workerVars, zipVars, reaperVars, uiVars, otherVars, valVars>>

\* a collection loop without the except clause of lines 178-180
CollectStep_uncaught(i) ==
    /\ pc = "collect"
    /\ i \in Finished \ collected
    /\ IF result[i] = "raised"
       THEN /\ pc' = "unwind"
            /\ UNCHANGED <<collected, success_count, success_files, fail_count>>
       ELSE /\ pc' = pc
            /\ collected' = collected \cup {i}
            /\ IF result[i] = "path"
               THEN /\ success_count' = success_count + 1
                    /\ success_files' = Append(success_files, OutPath(i))
                    /\ UNCHANGED fail_count
               ELSE /\ fail_count' = fail_count + 1
                    /\ UNCHANGED <<success_count, success_files>>
    /\ UNCHANGED <<now, regVars, fsVars, files, idx, workerVars, zipVars,
                   reaperVars, uiVars, otherVars, valVars>>

\* lines 168-183, one iteration: as_completed yields a finished future
CollectStep(i) ==
    /\ pc = "collect"
    /\ i \in Finished \ collected
    /\ collected' = collected \cup {i}
    /\ IF result[i] = "path"
       THEN /\ success_count' = success_count + 1
            /\ success_files' = Append(success_files, OutPath(i))
            /\ UNCHANGED fail_count
       ELSE /\ fail_count' = fail_count + 1
            /\ UNCHANGED <<success_count, success_files>>
    /\ UNCHANGED <<now, regVars, fsVars, pc, files, idx, workerVars, zipVars,
                   reaperVars, uiVars, otherVars, valVars>>

\* lines 185-188: the loop is over, the executor shuts down, return
ProcessReturn ==
    /\ pc = "collect"
    /\ collected = Scheduled
    /\ pc' = "returned"
    /\ UNCHANGED <<now, regVars, fsVars, files, idx, collected, success_files,
                   success_count, fail_count, workerVars, zipVars, reaperVars, uiVars, otherVars, valVars>>

\* ThreadPoolExecutor.__exit__ after the AttributeError: shutdown(wait=True)
\* lets every submitted task finish, then the exception reaches the caller.
ProcessRaise ==
    /\ pc = "unwind"
    /\ Scheduled = Finished
    /\ pc' = "raised"
    /\ UNCHANGED <<now, regVars, fsVars, files, idx, collected, success_files,
                   success_count, fail_count, workerVars, zipVars, reaperVars, uiVars, otherVars, valVars>>

(* ------------- another process_multiple_files call in flight ----------- *)

\* Each call builds its own ThreadPoolExecutor (line 149).  Of a second call
\* running beside the first only the occupancy of its pool is kept: the
\* tasks it has queued and the tasks its threads are executing.

\* lines 149-162 of the second call, on n uploads that pass validate_file
OtherCall ==
    /\ o_queued = 0
    /\ o_running = 0
    /\ \E n \in 1 .. MaxBatch : o_queued' = n
    /\ UNCHANGED <<now, regVars, fsVars, batchVars, workerVars, zipVars, reaperVars,
                   uiVars, o_running, valVars>>

\* a thread of the second call's pool takes a queued task: its executor
\* counts only its own threads against max_workers
OtherWorkerStart ==
    /\ o_queued > 0
    /\ o_running < MAX_CONCURRENT_TASKS
    /\ o_queued' = o_queued - 1
    /\ o_running' = o_running + 1
    /\ UNCHANGED <<now, regVars, fsVars, batchVars, workerVars, zipVars, reaperVars,
                   uiVars, valVars>>

\* a task of the second call finishes
OtherWorkerDone ==
    /\ o_running > 0
    /\ o_running' = o_running - 1
    /\ UNCHANGED <<now, regVars, fsVars, batchVars, workerVars, zipVars, reaperVars,
                   uiVars, o_queued, valVars>>

(* -------------------------- process_and_update ------------------------- *)

\* the status of lines 368-375 for success_count unlocked files and
\* fail_count others
StatusOf(shown_success, shown_fail) ==
    <<IF shown_success = 0 THEN "all_failed"
      ELSE IF shown_fail = 0 THEN "all_succeeded"
      ELSE "partial",
      shown_success, shown_fail>>

\* a handler that shows the size of the batch as the number of failures
ProcessAndUpdate_total ==
    /\ pc = "returned"
    /\ status = NoStatus
    /\ status' = IF files = <<>> THEN <<"select_files", 0, 0>>
                 ELSE StatusOf(Len(success_files), Len(files))
    /\ UNCHANGED <<now, regVars, fsVars, batchVars, workerVars, zipVars, reaperVars,
                   otherVars, valVars>>

\* lines 354-382, after process_multiple_files has returned: the counts
\* are taken from the lengths of the returned list and of the batch
ProcessAndUpdate ==
    /\ pc = "returned"
    /\ status = NoStatus
    /\ status' = IF files = <<>> THEN <<"select_files", 0, 0>>
                 ELSE StatusOf(Len(success_files), Len(files) - Len(success_files))
    /\ UNCHANGED <<now, regVars, fsVars, batchVars, workerVars, zipVars, reaperVars,
                   otherVars, valVars>>

(* --------------------------- create_zip_file --------------------------- *)

\* os.path.basename of an output path: line 109 names the output after the
\* upload, inside the task's own staging directory
Basename(p) == <<files[p[2]].base, "_unlocked">>

\* an archive file: the names of its entries in the order written, and
\* whether the with block of line 203 ended normally
NewArchive == [names |-> <<>>, complete |-> FALSE]

\* the names create_zip_file is to write: those of the listed paths it
\* found on disk, in the order of the list
FoundNames(k) ==
    LET RECURSIVE upTo(_)
        upTo(j) == IF j = 0 THEN <<>>
                   ELSE IF j \in z_found
                        THEN Append(upTo(j - 1), Basename(z_files[j]))
                        ELSE upTo(j - 1)
    IN upTo(k)

\* download_zip on the listed outputs; lines 193-203: the archive is named
\* after the current second, and zipfile.ZipFile(zip_path, "w") creates the
\* file, or empties the one that is there; an exception goes to lines
\* 215-218, which return None
ZipStart ==
    /\ z_pc = "idle"
    /\ pc = "returned"
    /\ success_files # <<>>
    /\ zip_calls < MaxZips
    /\ zip_calls' = zip_calls + 1
    /\ zip_path' = ZipPath(now)
    /\ z_files' = success_files
    /\ z_k' = 1
    /\ z_found' = {}
    /\ \E ok \in BOOLEAN :
          IF ok
          THEN /\ disk' = disk \cup {zip_path'}
               /\ archive' = Put(archive, zip_path', NewArchive)
               /\ z_pc' = "check"
               /\ z_result' = "pending"
          ELSE /\ z_pc' = "idle"
               /\ z_result' = "none"
               /\ UNCHANGED <<disk, archive>>
    /\ UNCHANGED <<now, regVars, dirs, batchVars, workerVars, reaperVars,
                   uiVars, otherVars, valVars>>

\* lines 204-205: the next file of the list and its os.path.exists
ZipCheck ==
    /\ z_pc = "check"
    /\ z_k <= Len(z_files)
    /\ IF z_files[z_k] \in disk
       THEN /\ z_found' = z_found \cup {z_k}
            /\ z_pc' = "write"
            /\ UNCHANGED z_k
       ELSE /\ z_k' = z_k + 1
            /\ UNCHANGED <<z_found, z_pc>>
    /\ UNCHANGED <<now, regVars, fsVars, batchVars, workerVars, zip_path, z_files,
                   zip_calls, z_result, reaperVars, uiVars, otherVars, valVars>>

\* lines 207-208: zipf.write(file, arcname) adds the entry, or raises (the
\* file is gone since line 205, or the write fails) and lines 215-218
\* return None, leaving the archive file as it is.  An archive file that
\* was unlinked meanwhile takes the write through the open handle and
\* stays off the disk.
ZipWrite ==
    /\ z_pc = "write"
    /\ \E ok \in BOOLEAN :
          IF ok /\ z_files[z_k] \in disk
          THEN /\ archive' = [archive EXCEPT ![zip_path].names =
                                 Append(@, Basename(z_files[z_k]))]
               /\ z_k' = z_k + 1
               /\ z_pc' = "check"
               /\ UNCHANGED z_result
          ELSE /\ z_pc' = "idle"
               /\ z_result' = "none"
               /\ UNCHANGED <<archive, z_k>>
    /\ UNCHANGED <<now, regVars, disk, dirs, batchVars, workerVars, zip_path, z_files,
                   z_found, zip_calls, reaperVars, uiVars, otherVars, valVars>>

\* the end of the with block of line 203: the archive is closed, or closing
\* raises and lines 215-218 return None
ZipClose ==
    /\ z_pc = "check"
    /\ z_k > Len(z_files)
    /\ \E ok \in BOOLEAN :
          IF ok
          THEN /\ archive' = [archive EXCEPT ![zip_path].complete = TRUE]
               /\ z_pc' = "lock"
               /\ UNCHANGED z_result
          ELSE /\ z_pc' = "idle"
               /\ z_result' = "none"
               /\ UNCHANGED archive
    /\ UNCHANGED <<now, regVars, disk, dirs, batchVars, workerVars, zip_path, z_files,
                   z_k, z_found, zip_calls, reaperVars, uiVars, otherVars, valVars>>

\* line 211
ZipAcquire ==
    /\ z_pc = "lock"
    /\ temp_files_lock = NoThread
    /\ temp_files_lock' = ZipThread
    /\ z_pc' = "insert"
    /\ UNCHANGED <<now, temp_files, inserted, fsVars, batchVars, workerVars, zip_path,
                   z_files, z_k, z_found, zip_calls, z_result, reaperVars,
                   uiVars, otherVars, valVars>>

\* an archive builder that returns the path without registering it
ZipInsert_unregistered ==
    /\ z_pc = "insert"
    /\ temp_files_lock' = NoThread
    /\ z_pc' = "idle"
    /\ z_result' = "path"
    /\ UNCHANGED <<now, temp_files, inserted, fsVars, batchVars, workerVars, zip_path,
                   z_files, z_k, z_found, zip_calls, reaperVars, uiVars, otherVars,
                   valVars>>

\* lines 212-214: register the archive, leave the with block, return
ZipInsert ==
    /\ z_pc = "insert"
    /\ temp_files' = Put(temp_files, zip_path, now)
    /\ inserted' = Put(inserted, zip_path, now)
    /\ temp_files_lock' = NoThread
    /\ z_pc' = "idle"
    /\ z_result' = "path"
    /\ UNCHANGED <<now, fsVars, batchVars, workerVars, zip_path, z_files, z_k,
                   z_found, zip_calls, reaperVars, uiVars, otherVars, valVars>>

(* ------------------------- cleanup_temp_files -------------------------- *)

\* line 60
Expired(created_time) == current_time - created_time > TEMP_FILES_TTL

\* the sleep of line 70 is over; line 55
ReaperReadTime ==
    /\ r_pc = "sleep"
    /\ now >= wake_at
    /\ current_time' = now
    /\ r_pc' = "lock"
    /\ UNCHANGED <<now, regVars, fsVars, batchVars, workerVars, zipVars,
                   expired_files, todo, wake_at, uiVars, otherVars, valVars>>

\* line 56
ReaperAcquire ==
    /\ r_pc = "lock"
    /\ temp_files_lock = NoThread
    /\ temp_files_lock' = Reaper
    /\ r_pc' = "scan"
    /\ UNCHANGED <<now, temp_files, inserted, fsVars, batchVars, workerVars, zipVars,
                   current_time, expired_files, todo, wake_at, uiVars, otherVars, valVars>>

\* lines 57-61
ReaperScan ==
    /\ r_pc = "scan"
    /\ expired_files' = { p \in DOMAIN temp_files : Expired(temp_files[p]) }
    /\ todo' = expired_files'
    /\ r_pc' = "loop"
    /\ UNCHANGED <<now, regVars, fsVars, batchVars, workerVars, zipVars,
                   current_time, wake_at, uiVars, otherVars, valVars>>

\* a loop without the try of lines 63-69: a failing os.remove ends the thread
ReaperRemove_uncaught(p) ==
    /\ r_pc = "loop"
    /\ p \in todo
    /\ IF p \in disk
       THEN \E removed \in BOOLEAN :
               IF removed
               THEN /\ disk' = disk \ {p}
                    /\ temp_files' = Pop(temp_files, p)
                    /\ todo' = todo \ {p}
                    /\ UNCHANGED <<r_pc, temp_files_lock>>
               ELSE /\ r_pc' = "dead"
                    /\ temp_files_lock' = NoThread
                    /\ UNCHANGED <<disk, temp_files, todo>>
       ELSE /\ temp_files' = Pop(temp_files, p)
            /\ todo' = todo \ {p}
            /\ UNCHANGED <<disk, r_pc, temp_files_lock>>
    /\ UNCHANGED <<now, inserted, dirs, archive, batchVars, workerVars, zipVars,
                   current_time, expired_files, wake_at, uiVars, otherVars, valVars>>

\* lines 62-69, one iteration: os.remove may raise, and then line 66 is
\* skipped and only the error is logged
ReaperRemove(p) ==
    /\ r_pc = "loop"
    /\ p \in todo
    /\ todo' = todo \ {p}
    /\ IF p \in disk
       THEN \E removed \in BOOLEAN :
               IF removed
               THEN /\ disk' = disk \ {p}
                    /\ temp_files' = Pop(temp_files, p)
               ELSE UNCHANGED <<disk, temp_files>>
       ELSE /\ temp_files' = Pop(temp_files, p)
            /\ UNCHANGED disk
    /\ UNCHANGED <<now, temp_files_lock, inserted, dirs, archive, batchVars, workerVars, zipVars,
                   r_pc, current_time, expired_files, wake_at, uiVars, otherVars, valVars>>

\* end of the with block; line 70: time.sleep(300)
ReaperRelease ==
    /\ r_pc = "loop"
    /\ todo = {}
    /\ temp_files_lock' = NoThread
    /\ r_pc' = "sleep"
    /\ wake_at' = now + SWEEP_INTERVAL
    /\ UNCHANGED <<now, temp_files, inserted, fsVars, batchVars, workerVars, zipVars,
                   current_time, expired_files, todo, uiVars, otherVars, valVars>>

(* -------------------------------- time --------------------------------- *)

\* The clock advances while the cleanup thread sleeps; a sweep takes no
\* time on the scale of a tick.
Tick ==
    /\ r_pc = "sleep"
    /\ now < wake_at
    /\ now < MaxTime
    /\ now' = now + 1
    /\ UNCHANGED <<regVars, fsVars, batchVars, workerVars, zipVars, reaperVars, uiVars, otherVars, valVars>>

(* ------------------------------ the system ----------------------------- *)

\* a batch on the worker pool
Next ==
    \/ ProcessStart
    \/ SubmitStep
    \/ SubmitDone
    \/ WorkerStart
    \/ \E i \in Tasks : WorkerWrite(i)
    \/ \E i \in Tasks : WorkerAcquire(i)
    \/ \E i \in Tasks : WorkerInsert(i)
    \/ \E i \in Tasks : WorkerExcept(i)
    \/ \E i \in Tasks : CollectStep(i)
    \/ ProcessReturn
    \/ ProcessRaise
    \/ ProcessAndUpdate

Spec == Init /\ [][Next]_vars

\* The calling thread and the pool's threads are scheduled by the operating
\* system: a step that stays possible is taken.  A task waiting for
\* temp_files_lock finds it free again after each holder's single insert.
BatchFairness ==
    /\ WF_vars(SubmitStep)
    /\ WF_vars(SubmitDone)
    /\ WF_vars(WorkerStart)
    /\ \A i \in Tasks :
          /\ WF_vars(WorkerWrite(i))
          /\ WF_vars(WorkerAcquire(i))
          /\ WF_vars(WorkerInsert(i))
          /\ WF_vars(WorkerExcept(i))
          /\ WF_vars(CollectStep(i))
    /\ WF_vars(ProcessReturn)
    /\ WF_vars(ProcessRaise)

\* a batch on the worker pool, every thread of which keeps running
SpecFair == Init /\ [][Next]_vars /\ BatchFairness

\* two calls of process_multiple_files in flight at once
NextCalls ==
    \/ Next
    \/ OtherCall
    \/ OtherWorkerStart
    \/ OtherWorkerDone

SpecCalls == Init /\ [][NextCalls]_vars

\* a batch, archive builds and the cleanup thread on the shared registry,
\* as time passes
NextRegistry ==
    \/ SubmitStep
    \/ SubmitDone
    \/ WorkerStart
    \/ \E i \in Tasks : WorkerWrite(i)
    \/ \E i \in Tasks : WorkerAcquire(i)
    \/ \E i \in Tasks : WorkerInsert(i)
    \/ \E i \in Tasks : WorkerExcept(i)
    \/ \E i \in Tasks : CollectStep(i)
    \/ ProcessReturn
    \/ ZipStart
    \/ ZipCheck
    \/ ZipWrite
    \/ ZipClose
    \/ ZipAcquire
    \/ ZipInsert
    \/ ReaperReadTime
    \/ ReaperAcquire
    \/ ReaperScan
    \/ \E p \in Paths : ReaperRemove(p)
    \/ ReaperRelease
    \/ Tick

SpecRegistry == InitRegistry /\ [][NextRegistry]_vars

SpecValidate == InitValidate /\ [][ValidateCall]_vars

\* archive builds on the outputs of a finished batch, beside the cleanup
\* thread, as time passes
NextArchive ==
    \/ ZipStart
    \/ ZipCheck
    \/ ZipWrite
    \/ ZipClose
    \/ ZipAcquire
    \/ ZipInsert
    \/ ReaperReadTime
    \/ ReaperAcquire
    \/ ReaperScan
    \/ \E p \in Paths : ReaperRemove(p)
    \/ ReaperRelease
    \/ Tick

SpecArchive == InitArchive /\ [][NextArchive]_vars

\* a batch and the cleanup thread on the shared registry, as time passes
NextSweep ==
    \/ SubmitStep
    \/ SubmitDone
    \/ WorkerStart
    \/ \E i \in Tasks : WorkerWrite(i)
    \/ \E i \in Tasks : WorkerAcquire(i)
    \/ \E i \in Tasks : WorkerInsert(i)
    \/ \E i \in Tasks : WorkerExcept(i)
    \/ \E i \in Tasks : CollectStep(i)
    \/ ProcessReturn
    \/ ReaperReadTime
    \/ ReaperAcquire
    \/ ReaperScan
    \/ \E p \in Paths : ReaperRemove(p)
    \/ ReaperRelease
    \/ Tick

\* The cleanup thread is a running thread (lines 229-231) and the clock
\* advances: a step of either that stays possible is taken.  The lock it
\* waits for is free again after each holder's single insert.
SweepFairness ==
    /\ WF_vars(ReaperReadTime)
    /\ WF_vars(ReaperAcquire)
    /\ WF_vars(ReaperScan)
    /\ WF_vars(\E p \in Paths : ReaperRemove(p))
    /\ WF_vars(ReaperRelease)
    /\ WF_vars(Tick)

SpecSweep == InitRegistry /\ [][NextSweep]_vars /\ BatchFairness /\ SweepFairness

(* ============================ properties =============================== *)

Range(seq) == { seq[k] : k \in DOMAIN seq }

\* uploads of the batch that validate_file rejects
Rejected == { k \in DOMAIN files : ~validate_file(files[k])[1] }

\* process_multiple_files has returned or raised
Ended == pc \in {"returned", "raised"}

\* C1: within one process_multiple_files call never more than
\* MAX_CONCURRENT_TASKS tasks execute at once; a task beyond the cap stays
\* queued.
C1_ConcurrencyCap ==
    /\ Cardinality(Running) <= MAX_CONCURRENT_TASKS
    /\ Cardinality(Running) + Cardinality(Queued) + Cardinality(Finished)
          = Cardinality(Scheduled)

\* the pool is full and an accepted upload waits in the queue
C1_Witness ==
    /\ Cardinality(Running) = MAX_CONCURRENT_TASKS
    /\ Queued # {}

\* C2: when the call is over, exactly N - K tasks were submitted for a batch
\* of N uploads of which K fail validate_file, and the returned list holds
\* at most N - K paths.
C2_SubmitsEveryAccepted ==
    Ended =>
       /\ Cardinality(Scheduled) = Len(files) - Cardinality(Rejected)
       /\ Len(success_files) <= Len(files) - Cardinality(Rejected)

\* C3: a task that raises or returns no path is one failure and leaves its
\* siblings alone: the coordinator does not raise because of it, every
\* scheduled task has finished when the call is over, every successful
\* sibling is in the returned list, and each failed task is counted once.
C3_FailureIsolated ==
    /\ pc \in {"unwind", "raised"} => (idx <= Len(files) /\ ~files[idx].hasName)
    /\ Ended => Scheduled = Finished
    /\ pc = "returned" =>
          /\ \A i \in Scheduled :
                result[i] = "path" <=> OutPath(i) \in Range(success_files)
          /\ success_count = Len(success_files)
          /\ fail_count = Cardinality(Rejected)
                + Cardinality({ i \in Scheduled : result[i] # "path" })

\* the call returned after one task raised, another returned no path and a
\* third succeeded
C3_Witness ==
    /\ pc = "returned"
    /\ \E i, j, k \in Scheduled :
          /\ result[i] = "raised"
          /\ result[j] = "none"
          /\ result[k] = "path"
          /\ OutPath(k) \in Range(success_files)

\* C4: process_multiple_files never raises to its caller, whatever the
\* uploads.
C4_NeverRaises == pc # "raised"

\* age of the registration of p
Age(p) == now - inserted[p]

\* C5: a registered artifact whose age has not exceeded TEMP_FILES_TTL is
\* still in the registry, with its creation time, and on disk.
C5_KeptUntilTtl ==
    \A p \in DOMAIN inserted :
       Age(p) <= TEMP_FILES_TTL =>
          /\ p \in DOMAIN temp_files
          /\ temp_files[p] = inserted[p]
          /\ p \in disk

\* Every deletion the cleanup thread makes is of an entry older than
\* TEMP_FILES_TTL: no step drops a younger entry or deletes its file.
ReaperRespectsTtl ==
    [][\A p \in DOMAIN temp_files :
          (now - temp_files[p] <= TEMP_FILES_TTL) =>
             /\ p \in DOMAIN temp_files'
             /\ temp_files'[p] >= temp_files[p]
             /\ (p \in disk => p \in disk')]_vars

\* C6: once more than TEMP_FILES_TTL plus one sweep interval has passed
\* since its registration, an artifact is gone, file and entry.
C6_GoneByDeadline ==
    \A p \in DOMAIN inserted :
       Age(p) > TEMP_FILES_TTL + SWEEP_INTERVAL =>
          /\ p \notin DOMAIN temp_files
          /\ p \notin disk

\* C7: at the end of a sweep no entry that was expired at its start is left
\* in the registry, whatever os.remove did.
C7_SweepDropsExpired ==
    (r_pc = "loop" /\ todo = {}) => expired_files \cap DOMAIN temp_files = {}

\* threads between acquiring and releasing temp_files_lock, where every
\* read and write of temp_files is
InRegistry ==
    { Worker(i) : i \in { j \in Tasks : w_pc[j] = "insert" } }
       \cup (IF z_pc = "insert" THEN {ZipThread} ELSE {})
       \cup (IF r_pc \in {"scan", "loop"} THEN {Reaper} ELSE {})

\* C8: a thread that accesses temp_files holds temp_files_lock, so at most
\* one thread is inside a registry access.
C8_RegistryUnderLock ==
    /\ \A t \in InRegistry : temp_files_lock = t
    /\ Cardinality(InRegistry) <= 1

\* the cleanup thread is deleting expired entries under the lock while the
\* archive builder waits for the lock to register its archive
C8_Witness ==
    /\ r_pc = "loop"
    /\ todo # {}
    /\ temp_files_lock = Reaper
    /\ z_pc = "lock"

\* C9 as claimed: the extension is checked right after the name, so every
\* named upload with an unsupported extension gets "unsupported file type",
\* a named .pdf of size 0 gets "file is empty", and an upload that passes
\* the four checks is accepted.
C9_ExtensionChecked ==
    verdict # NoVerdict =>
       /\ (candidate.hasName /\ Lower(candidate.ext) \notin SUPPORTED_EXTENSIONS)
             => verdict = <<FALSE, "unsupported_file_type">>
       /\ (candidate.hasName /\ candidate.readable
              /\ Lower(candidate.ext) \in SUPPORTED_EXTENSIONS /\ candidate.size = 0)
             => verdict = <<FALSE, "file_is_empty">>
       /\ (candidate.hasName /\ candidate.readable
              /\ Lower(candidate.ext) \in SUPPORTED_EXTENSIONS
              /\ candidate.size > 0 /\ candidate.size <= MAX_FILE_SIZE)
             => verdict[1]

\* C9 amended: the size is read between the name check and the extension
\* check, and an upload whose size cannot be read is rejected with the
\* generic reason whatever its extension; an upload whose size can be read
\* is rejected with the reason of the first failing check in the order
\* extension, size > 0, size <= maximum, and accepted when all pass.  The
\* registry and the file system stay as they were.
C9_SizeReadFirst ==
    verdict # NoVerdict =>
       LET named == candidate.hasName
           sized == named /\ candidate.readable
           typed == sized /\ Lower(candidate.ext) \in SUPPORTED_EXTENSIONS
           filled == typed /\ candidate.size > 0
           fits == filled /\ candidate.size <= MAX_FILE_SIZE
       IN  /\ ~named => verdict = <<FALSE, "invalid_file_object">>
           /\ (named /\ ~sized) => verdict = <<FALSE, "validation_failed">>
           /\ (sized /\ ~typed) => verdict = <<FALSE, "unsupported_file_type">>
           /\ (typed /\ ~filled) => verdict = <<FALSE, "file_is_empty">>
           /\ (filled /\ ~fits) => verdict = <<FALSE, "file_size_exceeds_limit">>
           /\ fits <=> verdict[1]
           /\ temp_files = EmptyMap /\ disk = {} /\ dirs = {}

\* an empty file with an unsupported extension was rejected for its
\* extension
C9_Witness ==
    /\ verdict = <<FALSE, "unsupported_file_type">>
    /\ candidate.size = 0

\* C10: a finished remove_pdf_restrictions call either returned its path,
\* with the file on disk and the path registered, or returned no path, with
\* its staging directory deleted and nothing registered.
C10_TwoOutcomes ==
    \A i \in Tasks :
       w_pc[i] = "done" =>
          \/ /\ result[i] = "path"
             /\ OutPath(i) \in disk
             /\ OutPath(i) \in DOMAIN temp_files
          \/ /\ result[i] = "none"
             /\ i \notin dirs
             /\ OutPath(i) \notin DOMAIN temp_files

\* C11: a create_zip_file call on a non-empty list creates one archive file;
\* when its with block ends, and still when the call returns, the entries
\* of that archive are exactly the base names of the listed paths that
\* os.path.exists found on disk, in the order of the list; and the call
\* returns zip_path with zip_path registered.
C11_ArchiveOfExisting ==
    [][/\ (z_pc = "idle" /\ z_pc' # "idle") =>
              /\ z_files' # <<>>
              /\ disk' = disk \cup {zip_path'}
       /\ (z_pc = "check" /\ z_pc' = "lock") =>
              archive'[zip_path] =
                 [names |-> FoundNames(Len(z_files)), complete |-> TRUE]
       /\ (z_pc = "insert" /\ z_pc' = "idle") =>
              /\ z_result' = "path"
              /\ zip_path \in DOMAIN temp_files'
              /\ archive'[zip_path] =
                    [names |-> FoundNames(Len(z_files)), complete |-> TRUE]]_vars

\* a call has returned the registered path of an archive with one entry for
\* each of the ArchBatch listed outputs
C11_Witness ==
    /\ z_pc = "idle"
    /\ z_result = "path"
    /\ zip_path \in DOMAIN temp_files
    /\ zip_path \in disk
    /\ archive[zip_path].complete
    /\ Len(archive[zip_path].names) = ArchBatch
    /\ Len(z_files) = ArchBatch

\* C12: a create_zip_file call that fails returns no path and leaves the
\* registry as it was, so the archive file it leaves behind, partly written,
\* is not a registered one.
C12_NoPartialRegistered ==
    (z_pc = "idle" /\ zip_calls > 0 /\ z_result = "none") =>
       ~ /\ zip_path \in DOMAIN temp_files
         /\ zip_path \in disk
         /\ ~archive[zip_path].complete

\* No step of a failing create_zip_file call changes the registry, and the
\* call ends by returning: there is no raising exit.
ZipFailureKeepsRegistry ==
    [][((z_pc # "idle" \/ zip_calls' # zip_calls)
           /\ z_pc' = "idle" /\ z_result' = "none")
          => temp_files' = temp_files]_vars

\* C18: two create_zip_file calls never share an archive path: the path a
\* call is writing its archive to is not one that an earlier call registered
\* and returned, so no call overwrites another call's archive.
C18_DistinctArchivePaths ==
    z_pc \in {"check", "write", "lock"} => zip_path \notin DOMAIN inserted

\* uploads of the batch that pass validate_file
Accepted == { k \in DOMAIN files : validate_file(files[k])[1] }

\* named, readable uploads of the batch with an unsupported extension
NonPdf ==
    { k \in DOMAIN files :
         validate_file(files[k]) = <<FALSE, "unsupported_file_type">> }

C14_ReturnsAfterAllTasks ==
    /\ [](pc = "returned" => Scheduled = Finished)
    /\ (pc = "submit") ~> (pc = "returned")

\* Every call ends, by returning or by raising, once all its scheduled tasks
\* are done.
CallEnds ==
    /\ [](Ended => Scheduled = Finished)
    /\ (pc = "submit") ~> Ended

\* C15: in the whole process, over all process_multiple_files calls in
\* flight, never more than MAX_CONCURRENT_TASKS unlock tasks execute at once.
C15_ProcessWideCap == Cardinality(Running) + o_running <= MAX_CONCURRENT_TASKS

\* the cleanup thread is at line 56, waiting for temp_files_lock
ReaperWaits == r_pc = "lock" /\ temp_files_lock # NoThread

\* C16 as claimed: in no state is the cleanup thread waiting for
\* temp_files_lock while an unlock worker or an archive build holds it.
C16_ReaperNeverWaits == ~ReaperWaits

\* C16 amended: the cleanup thread takes the same temp_files_lock as the
\* request-handling code and can wait for it, but only while the holder, an
\* unlock worker or an archive build, is at its single registry insert,
\* which it completes and leaves without waiting for anything.
C16_WaitsOnlyForInsert ==
    ReaperWaits =>
       \/ \E i \in Tasks : temp_files_lock = Worker(i) /\ w_pc[i] = "insert"
       \/ temp_files_lock = ZipThread /\ z_pc = "insert"

\* the cleanup thread waits for the lock while an unlock worker holds it
C16_Witness ==
    /\ ReaperWaits
    /\ \E i \in Tasks : temp_files_lock = Worker(i)

C19_ReapedLeavesNothing ==
    \A i \in Tasks :
       (OutPath(i) \in DOMAIN inserted /\ OutPath(i) \notin DOMAIN temp_files) =>
          /\ OutPath(i) \notin disk
          /\ i \notin dirs

\* C20: when process_multiple_files returns for a batch of N uploads, its
\* success_count and fail_count add up to N, success_count is the length of
\* the returned list, and the counts process_and_update shows, taken from
\* the two lengths, are the coordinator's own.
C20_CountsAgree ==
    pc = "returned" =>
       /\ success_count + fail_count = Len(files)
       /\ success_count = Len(success_files)
       /\ (status # NoStatus /\ files # <<>>) =>
             /\ status[2] = success_count
             /\ status[3] = fail_count

\* a batch of three returned one path, with one upload rejected and one task
\* failed, and the status shows one unlocked and two failed
C20_Witness ==
    /\ pc = "returned"
    /\ status = <<"partial", 1, 2>>
    /\ Cardinality(Rejected) = 1
    /\ \E i \in Scheduled : result[i] # "path"

====
